---------------------------- MODULE Spec2Model ----------------------------
(***************************************************************************)
(* A model of the audio-reactive renderer: the AudioAnalyzer queries       *)
(* (audio.py) and the Renderer scene controller (visuals/renderer.py).     *)
(*                                                                         *)
(* Numbers.  Times are counted in ticks of 1/fps second (the video frame   *)
(* period of main.py), so a frame time is t = tick/fps.  Energies are      *)
(* fixed-point numbers in units of 1/Scale.  Where the source divides two  *)
(* reals and the exact quotient matters (the gated bass) the quotient is   *)
(* kept as a fraction [num, den].  Arithmetic is exact: IEEE rounding of   *)
(* the Python floats is not modelled.                                      *)
(***************************************************************************)
EXTENDS Integers, Sequences, FiniteSets, TLC

(***************************************************************************)
(* Program constants                                                       *)
(***************************************************************************)
fps == 24
n_fft == 2048
hop_length == 512
transition_duration == 3
SeedStartSeconds == 100
DefaultBars == 8
Scale == 10 * 100          \* fixed-point unit: an energy e is kept as e * Scale

(***************************************************************************)
(* Bounds of the model                                                     *)
(*   MaxTick        last frame time rendered, in ticks                     *)
(*   FastBeatTicks  beat period of the fast beat track, in ticks           *)
(*   MaxModules     most module instances created in a session             *)
(*   AudioTicks     length of the analysed audio, in ticks                 *)
(*   MaxBeatFrame, MaxBeats, MaxQueryTick   beat-query specification       *)
(*   TrackLen       analysis frames of the energy-pipeline specification   *)
(*   MaxRawTenths   largest raw bass of the gate specification, in tenths  *)
(*   MaxFolds       most kaleidoscope stages applied to one image          *)
(*   FloatBits      significant bits of the floats of the drift            *)
(*                  specification (a Python float has 53)                  *)
(***************************************************************************)
MaxTick == 170
FastBeatTicks == 5
MaxModules == 5
AudioTicks == 165
MaxBeatFrame == 4
MaxBeats == 3
MaxQueryTick == 12
TrackLen == 3
MaxRawTenths == 15
MaxFolds == 2
FloatBits == 3

SampleRates == {44100}

\* Gaps between two rendered frames, in ticks: every frame, or every other
\* frame
FrameSteps == {1, 2}

VARIABLES
    phase,                      \* "setup" | "render" | "crashed" | "query"
    sr, beat_frames,            \* AudioAnalyzer: sample rate, beat frame indices
    band_db, onset_env,         \* analysis inputs: a band's mean dB per frame, onset strength
    smooth_bass, smooth_mid, smooth_high, accent_track,   \* AudioAnalyzer tracks
    query,                      \* result of the last analyzer query
    active_modules, module_start_times, fading_out_modules,
    available_module_factories,
    last_swap_beat, bars_per_scene, kaleidoscope,
    glitch, feedback, kick_threshold,
    last_glitch_beat, next_glitch_wait_bars,
    prev_image,                 \* Renderer.prev_image: the raster stored by the last frame
    now,                        \* tick of the last make_frame call (-1: none yet)
    nextId,                     \* identity of the next module instance created
    frame,                      \* what the last make_frame call did
    image,                      \* the composited image at the kaleidoscope stage
    center, drift,              \* VisualModule.center and .drift
    args                        \* main: the command line and what became of the load

analyzerVars == <<sr, beat_frames, band_db, onset_env,
                  smooth_bass, smooth_mid, smooth_high, accent_track, query>>
rendererVars == <<active_modules, module_start_times, fading_out_modules,
                  available_module_factories, last_swap_beat, bars_per_scene,
                  kaleidoscope, glitch, feedback, kick_threshold,
                  last_glitch_beat, next_glitch_wait_bars, prev_image>>
stageVars == <<image, center, drift, args>>
vars == <<phase, analyzerVars, rendererVars, now, nextId, frame, stageVars>>

(***************************************************************************)
(* Small helpers                                                           *)
(***************************************************************************)
Min(a, b) == IF a < b THEN a ELSE b
Max(a, b) == IF a > b THEN a ELSE b
Range(s) == {s[i] : i \in 1..Len(s)}

TransitionTicks == transition_duration * fps

(***************************************************************************)
(* audio.py: time -> analysis frame, beat index                            *)
(***************************************************************************)
\* librosa.time_to_samples: (t * sr).astype(int), t = tick/fps >= 0
time_to_samples(tick, rate) == (tick * rate) \div fps

\* librosa.samples_to_frames with n_fft given: floor((samples - n_fft//2) / hop)
samples_to_frames(samples) == (samples - (n_fft \div 2)) \div hop_length

time_to_frames(tick, rate) == samples_to_frames(time_to_samples(tick, rate))

\* np.searchsorted(a, v), side='left': bisection for the first i with a[i] >= v
RECURSIVE bisect_left(_, _, _, _)
bisect_left(a, v, lo, hi) ==
    IF lo >= hi THEN lo
    ELSE LET mid == (lo + hi) \div 2
         IN IF a[mid + 1] < v THEN bisect_left(a, v, mid + 1, hi)
                              ELSE bisect_left(a, v, lo, mid)

\* mutant: counts the entries from the insertion point to the end
searchsorted_fromEnd(a, v) == Len(a) - bisect_left(a, v, 0, Len(a))

searchsorted(a, v) == bisect_left(a, v, 0, Len(a))

get_beat_index_of(beats, rate, tick) == searchsorted(beats, time_to_frames(tick, rate))

get_beat_index(tick) == get_beat_index_of(beat_frames, sr, tick)

(***************************************************************************)
(* audio.py: _compute_energy_tracks                                        *)
(* A track is kept as [len, pat]: an array of len values whose i-th value  *)
(* (0-based) is pat[(i mod Len(pat)) + 1]; a track computed from an input  *)
(* has Len(pat) = len.                                                     *)
(***************************************************************************)
RECURSIVE SeqSum(_)
SeqSum(s) == IF s = <<>> THEN 0 ELSE Head(s) + SeqSum(Tail(s))

\* a / b rounded to the nearest integer, b > 0
RoundDiv(a, b) == (2 * a + b) \div (2 * b)

Clip(v, lo, hi) == IF v < lo THEN lo ELSE IF v > hi THEN hi ELSE v

\* the k-th smallest value of s (k = 0 is the minimum)
KthSmallest(s, k) ==
    CHOOSE v \in Range(s) :
        /\ Cardinality({i \in 1..Len(s) : s[i] < v}) <= k
        /\ k < Cardinality({i \in 1..Len(s) : s[i] <= v})

\* 100 * np.percentile(s, q), linear interpolation between order statistics
percentile100(s, q) ==
    LET n   == Len(s)
        pos == (n - 1) * q
        lo  == pos \div 100
        a   == KthSmallest(s, lo)
        b   == KthSmallest(s, Min(lo + 1, n - 1))
    IN 100 * a + (b - a) * (pos % 100)

\* normalize_band(data, boost) on the band's per-frame mean; an empty band
\* gives n zeros.  The result is in units of 1/Scale.
normalize_band(mean_energy, n, boostNum, boostDen) ==
    IF mean_energy = <<>> THEN [i \in 1..n |-> 0]
    ELSE LET ref_max100 == percentile100(mean_energy, 98)
             ref_min    == KthSmallest(mean_energy, 0)
             den100     == ref_max100 - 100 * ref_min
             norm(v)    == IF v = ref_min THEN 0
                           ELSE IF den100 = 0 THEN Scale
                           ELSE Clip(RoundDiv(Scale * 100 * (v - ref_min), den100), 0, Scale)
         IN [i \in 1..Len(mean_energy) |->
                RoundDiv(norm(mean_energy[i]) * boostNum, boostDen)]

\* scipy gaussian kernel exp(-x^2 / (2 sigma^2)), x = 0..4*sigma, times 1000
GaussWeights(sigma) ==
    CASE sigma = 1 -> <<1000, 607, 135, 11, 0>>
      [] sigma = 2 -> <<1000, 882, 607, 325, 135, 44, 11, 2, 0>>
      [] sigma = 3 -> <<1000, 946, 801, 607, 411, 249, 135, 66, 29, 11, 4, 1, 0>>
      [] sigma = 4 -> <<1000, 969, 882, 755, 607, 458, 325, 216, 135, 80, 44, 23,
                        11, 5, 2, 1, 0>>

\* scipy mode='reflect': (d c b a | a b c d | d c b a), 0-based index into n values
Reflect(i, n) == LET m == i % (2 * n) IN IF m < n THEN m ELSE 2 * n - 1 - m

gaussian_filter1d(x, sigma) ==
    LET w == GaussWeights(sigma)
        r == Len(w) - 1
        n == Len(x)
        wAt(d) == w[(IF d < 0 THEN -d ELSE d) + 1]
        total == SeqSum([k \in 1..(2 * r + 1) |-> wAt(k - 1 - r)])
    IN [i \in 1..n |->
          RoundDiv(SeqSum([k \in 1..(2 * r + 1) |->
                              wAt(k - 1 - r) * x[Reflect(i - 1 + k - 1 - r, n) + 1]]),
                   total)]

\* onset envelope -> accent track (audio.py 78-91); onset_env is in units of 1/Scale
accent_of(env) ==
         LET ref_onset100 == percentile100(env, 99)
             onset_norm == IF ref_onset100 > 0
                           THEN [i \in 1..Len(env) |->
                                   Clip(RoundDiv(Scale * 100 * env[i], ref_onset100),
                                        0, (Scale * 12) \div 10)]
                           ELSE env
         IN gaussian_filter1d(onset_norm, 1)

AsTrack(s) == [len |-> Len(s), pat |-> s]

compute_smooth_bass(db) == AsTrack(gaussian_filter1d(normalize_band(db, Len(db), 3, 2), 2))
compute_smooth_mid(db)  == AsTrack(gaussian_filter1d(normalize_band(db, Len(db), 1, 1), 4))
compute_smooth_high(db) == AsTrack(gaussian_filter1d(normalize_band(db, Len(db), 6, 5), 3))
compute_accent_track(env) == AsTrack(accent_of(env))

(***************************************************************************)
(* audio.py: get_energy_at_time                                            *)
(***************************************************************************)
\* Python indexing a[i]: a negative i counts from the end, an i outside
\* -len..len-1 raises IndexError
IndexOk(track, i) == -track.len <= i /\ i < track.len
TrackAt(track, i) ==
    LET j == IF i < 0 THEN i + track.len ELSE i
    IN track.pat[(j % Len(track.pat)) + 1]

NoEnergy == [raised |-> TRUE, hasAccent |-> FALSE, bass |-> 0, mid |-> 0, high |-> 0,
             accent |-> 0]

get_energy_at_frame(frame_idx) ==
    IF frame_idx >= smooth_bass.len
    THEN [raised |-> FALSE, hasAccent |-> FALSE, bass |-> 0, mid |-> 0, high |-> 0,
          accent |-> 0]
    ELSE IF ~(IndexOk(smooth_bass, frame_idx) /\ IndexOk(smooth_mid, frame_idx)
              /\ IndexOk(smooth_high, frame_idx))
    THEN NoEnergy
    ELSE IF frame_idx < accent_track.len /\ ~IndexOk(accent_track, frame_idx)
    THEN NoEnergy
    ELSE [raised |-> FALSE, hasAccent |-> TRUE,
          bass |-> TrackAt(smooth_bass, frame_idx),
          mid  |-> TrackAt(smooth_mid, frame_idx),
          high |-> TrackAt(smooth_high, frame_idx),
          accent |-> IF frame_idx < accent_track.len
                     THEN TrackAt(accent_track, frame_idx) ELSE 0]

get_energy_at_time(tick) == get_energy_at_frame(time_to_frames(tick, sr))

(***************************************************************************)
(* visuals/*.py: the draw signatures of the module classes                 *)
(***************************************************************************)
\* classes whose draw(self, draw, w, h, t, energy_levels) takes no opacity
NoOpacityKinds == {"TunnelEffect", "FlashEffect", "ParticleBurst"}
\* every other class (CirclePulse, LissajousCurve, ...) declares opacity=1.0
AcceptsOpacity(kind) == kind \notin NoOpacityKinds

\* main.generate_random_modules: one background module (TunnelEffect or one of
\* seven classes with opacity), then optionally a hero, a texture (classes with
\* opacity) and up to two FlashEffects, in this order
SeedKindLists ==
    LET bg    == {<<"TunnelEffect">>, <<"CirclePulse">>}
        hero  == {<<>>, <<"LissajousCurve">>}
        flash == {<<>>, <<"FlashEffect">>}
    IN {b \o h \o f : b \in bg, h \in hero, f \in flash}

\* main.module_pool_factories (30 lambdas; TunnelEffect and ParticleBurst among
\* them), or no pool at all
full_pool == <<"CirclePulse", "TunnelEffect", "ParticleBurst">>

(***************************************************************************)
(* renderer.py: Renderer.__init__, set_module_pool, set_bars               *)
(***************************************************************************)
Module(id, kind) == [id |-> id, kind |-> kind]

\* active_modules = modules[:2]
InitialActive(kinds) ==
    [i \in 1..Min(Len(kinds), 2) |-> Module(i, kinds[i])]

\* mutant: the seed modules start at time 0
InitialStartTimes_zero(mods) == [id \in {mods[i].id : i \in 1..Len(mods)} |-> 0]

\* module_start_times = {m: -100.0 for m in active_modules}, in ticks
InitialStartTimes(mods) ==
    [id \in {mods[i].id : i \in 1..Len(mods)} |-> -(SeedStartSeconds * fps)]

\* no image is being folded, no module is drifting, main's default window
NoImage == [w |-> 0, h |-> 0, px |-> <<>>, input |-> <<>>, folds |-> 0]
\* args also carries main's seed list (modules = generate_random_modules(...))
DefaultArgs == [found |-> TRUE, start |-> 0, end |-> 10, load |-> "ok",
                modules |-> <<>>]
NoStage ==
    /\ image = NoImage
    /\ center = <<0, 0>>
    /\ drift = <<0, 0>>
    /\ args = DefaultArgs

\* a raster: the time of the call that composited it and the operations
\* applied to its pixels, in order; prev_image = None before the first frame
NoPrevImage == [tick |-> -1, ops |-> <<>>]

NoFrame == [tick |-> -1, evolved |-> FALSE, draws |-> <<>>, raised |-> FALSE,
            levels |-> [bass |-> [num |-> 0, den |-> 1], mid |-> 0, high |-> 0,
                        accent |-> 0],
            glitched |-> FALSE, flashed |-> FALSE, shaken |-> FALSE,
            stages |-> <<>>, returned |-> NoPrevImage]

set_module_pool(factories) ==
    /\ phase = "setup"
    /\ available_module_factories' = factories
    /\ UNCHANGED <<stageVars, phase, analyzerVars, active_modules, module_start_times,
                   fading_out_modules, last_swap_beat, bars_per_scene, kaleidoscope,
                   glitch, feedback, kick_threshold, last_glitch_beat,
                   next_glitch_wait_bars, prev_image, now, nextId, frame>>

set_bars(bars) ==
    /\ phase = "setup"
    /\ bars_per_scene' = IF bars < 1 THEN 1 ELSE bars
    /\ UNCHANGED <<stageVars, phase, analyzerVars, active_modules, module_start_times,
                   fading_out_modules, available_module_factories, last_swap_beat,
                   kaleidoscope, glitch, feedback, kick_threshold, last_glitch_beat,
                   next_glitch_wait_bars, prev_image, now, nextId, frame>>

(***************************************************************************)
(* renderer.py: check_scene_evolution                                      *)
(* The random draws (remove_idx, the factory, the kaleidoscope toss) are   *)
(* parameters.  background_video_clip is None, as main constructs it.      *)
(***************************************************************************)
InsertAt(s, i, e) == SubSeq(s, 1, i - 1) \o <<e>> \o SubSeq(s, i, Len(s))
RemoveAt(s, i) == SubSeq(s, 1, i - 1) \o SubSeq(s, i + 1, Len(s))

\* mutant: the replacement is appended instead of inserted at remove_idx
ReplaceModule_append(mods, remove_idx, new_mod) == Append(RemoveAt(mods, remove_idx), new_mod)

\* mutant: the replacement is inserted without removing the retired module
ReplaceModule_keep(mods, remove_idx, new_mod) == InsertAt(mods, remove_idx, new_mod)

\* list.insert(remove_idx, new_mod) after list.pop(remove_idx)
ReplaceModule(mods, remove_idx, new_mod) == InsertAt(RemoveAt(mods, remove_idx), remove_idx, new_mod)

\* mutant: the event waits for more than bars_per_scene * 4 beats
EvolutionDue_late(t) ==
    /\ get_beat_index(t) - last_swap_beat > bars_per_scene * 4
    /\ available_module_factories # <<>>

\* mutant: every frame is an evolution frame once a pool is set
EvolutionDue_always(t) == available_module_factories # <<>>

\* the guard of line 69
EvolutionDue(t) ==
    /\ get_beat_index(t) - last_swap_beat >= bars_per_scene * 4
    /\ available_module_factories # <<>>

\* mutant: a slot is filled while fewer than 3 modules are active
NeedsFill_three(mods) == Len(mods) < 3

\* len(self.active_modules) < 2 (line 80)
NeedsFill(mods) == Len(mods) < 2

\* mutant: the retired module is tagged with time 0
Retire_atZero(fading, old_mod, t) == Append(fading, [mod |-> old_mod, start_t |-> 0])

\* self.fading_out_modules.append((old_mod, t)) (line 92)
Retire(fading, old_mod, t) == Append(fading, [mod |-> old_mod, start_t |-> t])

\* mutant: last_swap_beat advances by one scene interval per event
swap_beat_step(t) == last_swap_beat + bars_per_scene * 4

\* self.last_swap_beat = current_beat (line 70)
swap_beat(t) == get_beat_index(t)

\* the Renderer fields after check_scene_evolution(t)
check_scene_evolution(t, remove_idx, factory, flip) ==
    LET cur == [active |-> active_modules, starts |-> module_start_times,
                fading |-> fading_out_modules, last_swap |-> last_swap_beat,
                kaleidoscope |-> kaleidoscope, nextId |-> nextId, evolved |-> FALSE]
        new_mod == Module(nextId, available_module_factories[factory])
        starts2 == [id \in DOMAIN module_start_times \cup {nextId} |->
                       IF id = nextId THEN t ELSE module_start_times[id]]
    IN IF ~EvolutionDue(t) THEN cur
       ELSE [active |-> IF NeedsFill(active_modules)
                        THEN Append(active_modules, new_mod)
                        ELSE ReplaceModule(active_modules, remove_idx, new_mod),
             starts |-> starts2,
             fading |-> IF NeedsFill(active_modules)
                        THEN fading_out_modules
                        ELSE Retire(fading_out_modules, active_modules[remove_idx], t),
             last_swap |-> swap_beat(t),
             kaleidoscope |-> IF flip THEN ~kaleidoscope ELSE kaleidoscope,
             nextId |-> nextId + 1,
             evolved |-> TRUE]

(***************************************************************************)
(* renderer.py: make_frame                                                 *)
(***************************************************************************)
\* mutant: the bass at or above the threshold is passed on without rescaling
GateBass_noRescale(raw_bass, threshold) ==
    IF raw_bass < threshold THEN [num |-> 0, den |-> 1]
    ELSE [num |-> raw_bass, den |-> Scale]

\* the kick threshold gate on bass (lines 157-163); the result is a fraction
GateBass(raw_bass, threshold) ==
    IF raw_bass < threshold THEN [num |-> 0, den |-> 1]
    ELSE IF Scale - threshold > 0
         THEN [num |-> raw_bass - threshold, den |-> Scale - threshold]
         ELSE [num |-> raw_bass, den |-> Scale]

GateLevels(e, threshold) ==
    [bass |-> GateBass(e.bass, threshold), mid |-> e.mid, high |-> e.high,
     accent |-> e.accent]

\* opacity of a fading-out module, in units of 1/TransitionTicks
FadeOutAlpha(t, start_t) == TransitionTicks - (t - start_t)

\* mutant: the fade-in progress is not capped at 1
FadeInAlpha_uncapped(t, start_t) == t - start_t

\* opacity of an active module, in units of 1/TransitionTicks
FadeInAlpha(t, start_t) == IF t - start_t < TransitionTicks THEN t - start_t
                           ELSE TransitionTicks

Draw(mod, alpha, layer) ==
    [mod |-> mod, opacity |-> alpha, layer |-> layer, ok |-> AcceptsOpacity(mod.kind)]

\* the draw calls of a loop up to and including the first one that raises
RECURSIVE UntilRaise(_)
UntilRaise(draws) ==
    IF draws = <<>> THEN <<>>
    ELSE IF ~Head(draws).ok THEN <<Head(draws)>>
    ELSE <<Head(draws)>> \o UntilRaise(Tail(draws))

Raises(draws) == \E i \in 1..Len(draws) : ~draws[i].ok

\* mutant: a module whose fade-out progress is exactly 1 is still kept
StillFading_inclusive(t, entry) == t - entry.start_t <= TransitionTicks

\* progress < 1.0 (line 171)
StillFading(t, entry) == t - entry.start_t < TransitionTicks

\* accent thresholds of the glitch stage (lines 369, 389, 396)
IsAccent(accent)    == 10 * accent > 7 * Scale
IsFlash(accent)     == 100 * accent > 95 * Scale
\* mutant: the shake needs an accent above the flash threshold
IsShake_flashOnly(accent) == 100 * accent > 95 * Scale

IsShake(accent)     == 10 * accent > 8 * Scale

\* mutant: no cooldown between two channel splits
GlitchReady_always(t) == get_beat_index(t) >= last_glitch_beat

\* ready = beats_since_glitch >= wait_beats (lines 363-370)
GlitchReady(t) == get_beat_index(t) - last_glitch_beat >= next_glitch_wait_bars * 4

\* mutant: the active modules are drawn before the fading ones
draw_loops_activeFirst(fadeDraws, activeDraws) ==
    IF Raises(activeDraws) THEN UntilRaise(activeDraws)
    ELSE activeDraws \o UntilRaise(fadeDraws)

\* the two draw loops of lines 167-184: fading_out_modules, then
\* active_modules; a draw that raises ends the call
draw_loops(fadeDraws, activeDraws) ==
    IF Raises(fadeDraws) THEN UntilRaise(fadeDraws)
    ELSE fadeDraws \o UntilRaise(activeDraws)

\* lines 337-341: the background the visuals layer is pasted on
Background(prev) == IF feedback /\ prev # NoPrevImage THEN "decay" ELSE "black"

\* the effects of the glitch stage on the image, in the order of lines 377-401
glitch_fx(split, flash, shake) ==
    (IF split THEN <<"split">> ELSE <<>>)
        \o (IF flash THEN <<"flash">> ELSE <<>>)
        \o (IF shake THEN <<"shake">> ELSE <<>>)

\* mutant: the frame is stored before the kaleidoscope and glitch stages
post_process_storeFirst(fold, split, flash, shake) ==
    [stored |-> <<>>,
     later  |-> (IF fold THEN <<"fold">> ELSE <<>>) \o glitch_fx(split, flash, shake)]

\* lines 346-404: what is done to the image before prev_image = image.copy()
\* (kaleidoscope fold, channel split, white flash, shake) and between the
\* copy and the return (nothing)
post_process(fold, split, flash, shake) ==
    [stored |-> (IF fold THEN <<"fold">> ELSE <<>>) \o glitch_fx(split, flash, shake),
     later  |-> <<>>]

\* position of a stage in a sequence of stages (0: absent)
StagePos(stages, stage) ==
    IF \E i \in 1..Len(stages) : stages[i] = stage
    THEN CHOOSE i \in 1..Len(stages) : stages[i] = stage
    ELSE 0

\* the whole of make_frame(t): what it leaves in the Renderer and what it did
make_frame(t, remove_idx, factory, flip, wait) ==
    LET ev     == check_scene_evolution(t, remove_idx, factory, flip)
        e      == get_energy_at_time(t)
        levels == GateLevels(e, kick_threshold)
        Keep(entry) == StillFading(t, entry)
        active_fades == SelectSeq(ev.fading, Keep)
        fadeDraws == [i \in 1..Len(active_fades) |->
                        Draw(active_fades[i].mod,
                             FadeOutAlpha(t, active_fades[i].start_t), "fading")]
        activeDraws == [i \in 1..Len(ev.active) |->
                          Draw(ev.active[i],
                               FadeInAlpha(t, ev.starts[ev.active[i].id]), "active")]
        draws  == IF e.raised THEN <<>> ELSE draw_loops(fadeDraws, activeDraws)
        raised == e.raised \/ Raises(fadeDraws) \/ Raises(activeDraws)
        fired  == ~raised /\ glitch /\ IsAccent(levels.accent) /\ GlitchReady(t)
        flashed == fired /\ IsFlash(levels.accent)
        shaken == ~raised /\ glitch /\ IsShake(levels.accent)
        base   == <<Background(prev_image), "paste">>
        post   == post_process(ev.kaleidoscope, fired, flashed, shaken)
        stages == <<"evolve">>
                    \o (IF e.raised THEN <<>> ELSE <<"draw">>)
                    \o (IF raised THEN <<>>
                        ELSE base \o post.stored \o <<"store">> \o post.later)
    IN [active |-> ev.active, starts |-> ev.starts,
        fading |-> IF e.raised \/ Raises(fadeDraws) THEN ev.fading ELSE active_fades,
        last_swap |-> ev.last_swap, kaleidoscope |-> ev.kaleidoscope,
        nextId |-> ev.nextId,
        last_glitch |-> IF fired THEN get_beat_index(t) ELSE last_glitch_beat,
        wait_bars |-> IF fired THEN wait ELSE next_glitch_wait_bars,
        prev_image |-> IF raised THEN prev_image
                      ELSE [tick |-> t, ops |-> base \o post.stored],
        frame |-> [tick |-> t, evolved |-> ev.evolved, draws |-> draws,
                   raised |-> raised,
                   levels |-> IF e.raised THEN NoFrame.levels ELSE levels,
                   glitched |-> fired,
                   flashed |-> flashed,
                   shaken |-> shaken,
                   stages |-> stages,
                   returned |-> IF raised THEN NoPrevImage
                                ELSE [tick |-> t,
                                      ops |-> base \o post.stored \o post.later]]]

\* mutant: the wait after a firing is drawn like the initial one
GlitchWaits_initial == {8, 16}

\* random.choice([2, 4, 8]) (line 375)
GlitchWaits == {2, 4, 8}

\* one make_frame call, dt ticks after the last one (the first one at t = 0);
\* a random draw the call does not make is not enumerated
MakeFrame(dt) ==
    /\ phase \in {"setup", "render"}
    /\ LET t   == IF now < 0 THEN 0 ELSE now + dt
           due == EvolutionDue(t)
       IN /\ t <= MaxTick
          /\ nextId <= MaxModules
          /\ \E remove_idx \in IF due /\ ~NeedsFill(active_modules)
                               THEN 1..Len(active_modules) ELSE {1},
                factory \in IF due THEN 1..Len(available_module_factories) ELSE {1},
                flip \in IF due THEN BOOLEAN ELSE {FALSE} :
                LET r2 == make_frame(t, remove_idx, factory, flip, 2)
                IN \E wait \in IF r2.frame.glitched THEN GlitchWaits ELSE {2} :
                   LET r == IF wait = 2 THEN r2
                            ELSE make_frame(t, remove_idx, factory, flip, wait)
                   IN /\ active_modules' = r.active
                      /\ module_start_times' = r.starts
                      /\ fading_out_modules' = r.fading
                      /\ last_swap_beat' = r.last_swap
                      /\ kaleidoscope' = r.kaleidoscope
                      /\ nextId' = r.nextId
                      /\ last_glitch_beat' = r.last_glitch
                      /\ next_glitch_wait_bars' = r.wait_bars
                      /\ prev_image' = r.prev_image
                      /\ frame' = r.frame
                      /\ phase' = IF r.frame.raised THEN "crashed" ELSE "render"
                      /\ now' = t
    /\ UNCHANGED <<stageVars, analyzerVars, available_module_factories, bars_per_scene,
                   glitch, feedback, kick_threshold>>

(***************************************************************************)
(* The render session: Renderer(analyzer, modules, ...), optional          *)
(* set_module_pool / set_bars, then make_frame for increasing times.       *)
(***************************************************************************)
\* beat frames of a track with one beat every periodTicks ticks, the k-th at
\* k * periodTicks (librosa frame of a time: floor(t * sr / hop))
BeatEvery(rate, periodTicks) ==
    [k \in 1..(MaxTick \div periodTicks) |-> (k * periodTicks * rate) \div (fps * hop_length)]

BeatTracks(rate) == {<<>>, BeatEvery(rate, fps), BeatEvery(rate, FastBeatTicks)}

\* number of analysis frames of audioTicks ticks of audio (stft, centered)
FramesOf(rate, audioTicks) == 1 + ((audioTicks * rate) \div fps) \div hop_length

AccentPatterns == {<<0>>, <<0, 850, 1200, 750>>}
BarsInputs == {0, 2}
PoolInputs == {<<>>, full_pool}

Init ==
    /\ phase = "setup"
    /\ sr \in SampleRates
    /\ beat_frames \in BeatTracks(sr)
    /\ band_db = <<>>
    /\ onset_env = <<>>
    /\ smooth_bass = [len |-> FramesOf(sr, AudioTicks), pat |-> <<0, 700, 1500>>]
    /\ smooth_mid = [len |-> FramesOf(sr, AudioTicks), pat |-> <<500>>]
    /\ smooth_high = [len |-> FramesOf(sr, AudioTicks), pat |-> <<1200, 300>>]
    /\ \E pat \in AccentPatterns :
          accent_track = [len |-> FramesOf(sr, AudioTicks), pat |-> pat]
    /\ query = [kind |-> "none"]
    /\ \E kinds \in SeedKindLists :
          /\ active_modules = InitialActive(kinds)
          /\ module_start_times = InitialStartTimes(InitialActive(kinds))
          /\ nextId = Len(InitialActive(kinds)) + 1
          /\ args = [DefaultArgs EXCEPT !.modules = kinds]
    /\ fading_out_modules = <<>>
    /\ available_module_factories = <<>>
    /\ last_swap_beat = 0
    /\ bars_per_scene = DefaultBars
    /\ kaleidoscope = FALSE
    /\ glitch \in BOOLEAN
    /\ feedback = TRUE
    /\ kick_threshold = (6 * Scale) \div 10
    /\ last_glitch_beat = 0
    /\ next_glitch_wait_bars \in {8, 16}
    /\ now = -1
    /\ frame = NoFrame
    /\ prev_image = NoPrevImage
    /\ image = NoImage
    /\ center = <<0, 0>>
    /\ drift = <<0, 0>>

Next ==
    \/ \E factories \in PoolInputs : set_module_pool(factories)
    \/ \E bars \in BarsInputs : set_bars(bars)
    \/ \E dt \in FrameSteps : MakeFrame(dt)

Spec == Init /\ [][Next]_vars

(***************************************************************************)
(* Specifications of the pure parts.  The Renderer is not constructed.     *)
(***************************************************************************)
NoRenderer(threshold) ==
    /\ active_modules = <<>>
    /\ module_start_times = <<>>
    /\ fading_out_modules = <<>>
    /\ available_module_factories = <<>>
    /\ last_swap_beat = 0
    /\ bars_per_scene = DefaultBars
    /\ kaleidoscope = FALSE
    /\ glitch = FALSE
    /\ feedback = FALSE
    /\ kick_threshold = threshold
    /\ last_glitch_beat = 0
    /\ next_glitch_wait_bars = 8
    /\ now = -1
    /\ nextId = 1
    /\ frame = NoFrame
    /\ prev_image = NoPrevImage

NoTracks ==
    /\ band_db = <<>>
    /\ onset_env = <<>>
    /\ smooth_bass = AsTrack(<<>>)
    /\ smooth_mid = AsTrack(<<>>)
    /\ smooth_high = AsTrack(<<>>)
    /\ accent_track = AsTrack(<<>>)

\* strictly increasing sequences of at most MaxBeats frames in 0..MaxBeatFrame
RECURSIVE IncreasingSeqs(_, _)
IncreasingSeqs(lo, n) ==
    IF n = 0 THEN {<<>>}
    ELSE {<<>>} \cup UNION {{<<b>> \o rest : rest \in IncreasingSeqs(b + 1, n - 1)} :
                             b \in lo..MaxBeatFrame}

QueryRates == {8000, 44100}

(* -- beat index queries ------------------------------------------------- *)
InitBeats ==
    /\ phase = "query"
    /\ sr \in QueryRates
    /\ beat_frames \in IncreasingSeqs(0, MaxBeats)
    /\ NoTracks
    /\ query = [kind |-> "none"]
    /\ NoRenderer(0)
    /\ NoStage

QueryBeat(tick) ==
    /\ phase = "query"
    /\ query' = [kind |-> "beat", tick |-> tick, frame_idx |-> time_to_frames(tick, sr),
                 beat |-> get_beat_index(tick)]
    /\ UNCHANGED <<stageVars, phase, sr, beat_frames, band_db, onset_env, smooth_bass, smooth_mid,
                   smooth_high, accent_track, rendererVars, now, nextId, frame>>

NextBeats == \E tick \in 0..MaxQueryTick : QueryBeat(tick)

SpecBeats == InitBeats /\ [][NextBeats]_vars

(* -- energy pipeline and energy queries --------------------------------- *)
Tenths(k) == (k * Scale) \div 10

DbValues == {-80, -40, 0}
OnsetValues == {0, 3 * Scale}
\* beat frames inside a track of TrackLen frames, or no beat
EnergyBeatTracks == {<<>>, <<0, 2>>}
\* kick thresholds of the Renderer that reads the tracks, in tenths
EnergyThresholds == {0, 6}

InitEnergy ==
    /\ phase = "load"
    /\ sr = 8000
    /\ beat_frames \in EnergyBeatTracks
    /\ band_db \in [1..TrackLen -> DbValues]
    /\ onset_env \in [1..TrackLen -> OnsetValues]
    /\ smooth_bass = AsTrack(<<>>)
    /\ smooth_mid = AsTrack(<<>>)
    /\ smooth_high = AsTrack(<<>>)
    /\ accent_track = AsTrack(<<>>)
    /\ query = [kind |-> "none"]
    /\ \E k \in EnergyThresholds : NoRenderer(Tenths(k))
    /\ NoStage

\* AudioAnalyzer.__init__ -> _compute_energy_tracks
ComputeEnergyTracks ==
    /\ phase = "load"
    /\ phase' = "query"
    /\ smooth_bass' = compute_smooth_bass(band_db)
    /\ smooth_mid' = compute_smooth_mid(band_db)
    /\ smooth_high' = compute_smooth_high(band_db)
    /\ accent_track' = compute_accent_track(onset_env)
    /\ UNCHANGED <<stageVars, sr, beat_frames, band_db, onset_env, query, rendererVars, now,
                   nextId, frame>>

QueryEnergy(tick) ==
    /\ phase = "query"
    /\ query' = [kind |-> "energy", tick |-> tick, frame_idx |-> time_to_frames(tick, sr),
                 energy |-> get_energy_at_time(tick), beat |-> get_beat_index(tick)]
    /\ UNCHANGED <<stageVars, phase, sr, beat_frames, band_db, onset_env, smooth_bass, smooth_mid,
                   smooth_high, accent_track, rendererVars, now, nextId, frame>>

\* lines 155-163 of make_frame on their own: the gate on the levels read from
\* the analyzer
ApplyGate ==
    /\ phase \in {"gate", "query"}
    /\ query.kind \in {"levels", "energy"}
    /\ ~query.energy.raised
    /\ query' = [kind |-> "gated", energy |-> query.energy,
                 levels |-> GateLevels(query.energy, kick_threshold)]
    /\ UNCHANGED <<stageVars, phase, sr, beat_frames, band_db, onset_env, smooth_bass, smooth_mid,
                   smooth_high, accent_track, rendererVars, now, nextId, frame>>

NextEnergy ==
    \/ ComputeEnergyTracks
    \/ \E tick \in 0..MaxQueryTick : QueryEnergy(tick)
    \/ ApplyGate

SpecEnergy == InitEnergy /\ [][NextEnergy]_vars

(* -- the kick threshold gate -------------------------------------------- *)
InitGate ==
    /\ phase = "gate"
    /\ sr = 44100
    /\ beat_frames = <<>>
    /\ NoTracks
    /\ \E b \in 0..MaxRawTenths, m \in {0, Scale}, a \in {0, Tenths(12)} :
          query = [kind |-> "levels",
                   energy |-> [raised |-> FALSE, hasAccent |-> TRUE, bass |-> Tenths(b),
                               mid |-> m, high |-> Tenths(3), accent |-> a]]
    /\ \E k \in 0..9 : NoRenderer(Tenths(k))
    /\ NoStage

NextGate == ApplyGate

SpecGate == InitGate /\ [][NextGate]_vars

(* -- the kaleidoscope stage ---------------------------------------------- *)
\* An image is [w, h, px]: px[y + 1][x + 1] is the pixel at (x, y).  A pixel is
\* one number; 0 is the black of Image.new.  input is the image the first
\* stage received.
Pixels == {0, 1}
ImageSizes == {<<2, 2>>, <<4, 2>>, <<2, 4>>, <<3, 2>>}

\* Image.new("RGB", (w, h))
ImageNew(w, h) == [w |-> w, h |-> h, px |-> [y \in 1..h |-> [x \in 1..w |-> 0]]]

\* mutant: the box is measured from the bottom-right corner of the image
ImageCrop_fromEnd(img, x0, y0, x1, y1) ==
    [w |-> x1 - x0, h |-> y1 - y0,
     px |-> [y \in 1..(y1 - y0) |-> [x \in 1..(x1 - x0) |->
                img.px[img.h - y1 + y][img.w - x1 + x]]]]

\* image.crop((x0, y0, x1, y1)), the box inside the image
ImageCrop(img, x0, y0, x1, y1) ==
    [w |-> x1 - x0, h |-> y1 - y0,
     px |-> [y \in 1..(y1 - y0) |-> [x \in 1..(x1 - x0) |-> img.px[y0 + y][x0 + x]]]]

\* dst.paste(src, (ox, oy)): src written over dst from (ox, oy), clipped to dst
ImagePaste(dst, src, ox, oy) ==
    [w |-> dst.w, h |-> dst.h,
     px |-> [y \in 1..dst.h |-> [x \in 1..dst.w |->
                IF /\ x - ox \in 1..src.w
                   /\ y - oy \in 1..src.h
                THEN src.px[y - oy][x - ox]
                ELSE dst.px[y][x]]]]

\* mutant: the quadrant is repeated, not mirrored
FLIP_LEFT_RIGHT_none(img) == img

\* img.transpose(Image.FLIP_LEFT_RIGHT)
FLIP_LEFT_RIGHT(img) ==
    [w |-> img.w, h |-> img.h,
     px |-> [y \in 1..img.h |-> [x \in 1..img.w |-> img.px[y][img.w + 1 - x]]]]

\* img.transpose(Image.FLIP_TOP_BOTTOM)
FLIP_TOP_BOTTOM(img) ==
    [w |-> img.w, h |-> img.h,
     px |-> [y \in 1..img.h |-> img.px[img.h + 1 - y]]]

\* lines 347-355
kaleidoscope_fold(img) ==
    LET w == img.w
        h == img.h
        quad_w == w \div 2
        quad_h == h \div 2
        source == ImageCrop(img, 0, 0, quad_w, quad_h)
        row0 == ImageNew(w, quad_h)
        row1 == ImagePaste(row0, source, 0, 0)
        row  == ImagePaste(row1, FLIP_LEFT_RIGHT(source), quad_w, 0)
        full0 == ImageNew(w, h)
        full1 == ImagePaste(full0, row, 0, 0)
    IN ImagePaste(full1, FLIP_TOP_BOTTOM(row), 0, quad_h)

InitFold ==
    /\ phase = "fold"
    /\ sr = 44100
    /\ beat_frames = <<>>
    /\ NoTracks
    /\ query = [kind |-> "none"]
    /\ active_modules = <<>>
    /\ module_start_times = <<>>
    /\ fading_out_modules = <<>>
    /\ available_module_factories = <<>>
    /\ last_swap_beat = 0
    /\ bars_per_scene = DefaultBars
    /\ kaleidoscope \in BOOLEAN
    /\ glitch = FALSE
    /\ feedback = FALSE
    /\ kick_threshold = 0
    /\ last_glitch_beat = 0
    /\ next_glitch_wait_bars = 8
    /\ now = -1
    /\ nextId = 1
    /\ frame = NoFrame
    /\ prev_image = NoPrevImage
    /\ \E size \in ImageSizes :
          \E px \in [1..size[2] -> [1..size[1] -> Pixels]] :
             image = [w |-> size[1], h |-> size[2], px |-> px, input |-> px, folds |-> 0]
    /\ center = <<0, 0>>
    /\ drift = <<0, 0>>
    /\ args = DefaultArgs

\* lines 346-355 of make_frame on their own: one frame's kaleidoscope stage on
\* the composited image
KaleidoscopeStage ==
    /\ phase = "fold"
    /\ image.folds < MaxFolds
    /\ image' = IF kaleidoscope
                THEN [w |-> image.w, h |-> image.h,
                      px |-> kaleidoscope_fold(image).px,
                      input |-> image.input, folds |-> image.folds + 1]
                ELSE [image EXCEPT !.folds = image.folds + 1]
    /\ UNCHANGED <<phase, analyzerVars, rendererVars, now, nextId, frame,
                   center, drift, args>>

NextFold == KaleidoscopeStage

SpecFold == InitFold /\ [][NextFold]_vars

(* -- base.py: VisualModule.update_center, get_coords ---------------------- *)
\* center and drift are Python floats.  Here a float is a binary floating-point
\* number with FloatBits significant bits, kept as an integer count of
\* 1/FloatOne (the smallest step of the format), and every sum is rounded to
\* the nearest such number, ties to even, as IEEE 754 does.
FloatOne == 8 * 8

RECURSIVE Pow2Floor(_)
Pow2Floor(m) == IF m < 2 THEN 1 ELSE 2 * Pow2Floor(m \div 2)

RECURSIVE Pow2(_)
Pow2(k) == IF k = 0 THEN 1 ELSE 2 * Pow2(k - 1)

\* the float nearest to n / FloatOne
FloatRound(n) ==
    LET mag     == IF n < 0 THEN -n ELSE n
        spacing == Max(1, Pow2Floor(mag) \div Pow2(FloatBits - 1))
        q       == mag \div spacing
        rem     == mag % spacing
        up      == 2 * rem > spacing \/ (2 * rem = spacing /\ q % 2 = 1)
        r       == (IF up THEN q + 1 ELSE q) * spacing
    IN IF n < 0 THEN -r ELSE r

\* a + b on floats
FloatAdd(a, b) == FloatRound(a + b)

\* Python's float x % 1.0: C fmod (exact, with the sign of x), then the
\* divisor is added when the remainder is negative
FloatMod1(x) ==
    LET mod == IF x < 0 THEN -((-x) % FloatOne) ELSE x % FloatOne
    IN IF mod < 0 THEN FloatAdd(mod, FloatOne) ELSE mod

\* the center after self.center[i] += self.drift[i]; self.center[i] %= 1.0
wrapped_center(c, d) == [i \in 1..2 |-> FloatMod1(FloatAdd(c[i], d[i]))]

CenterInputs == {0, FloatOne \div 2}
DriftInputs == {-80, -1, 0, 3, 24, 96}
\* canvas sizes (powers of two: center * w is then exact)
CanvasSizes == {<<8, 4>>}

InitDrift ==
    /\ phase = "drift"
    /\ sr = 44100
    /\ beat_frames = <<>>
    /\ NoTracks
    /\ query = [kind |-> "none"]
    /\ NoRenderer(0)
    /\ image = NoImage
    /\ center \in CenterInputs \X CenterInputs
    /\ drift \in DriftInputs \X DriftInputs
    /\ args = DefaultArgs

update_center ==
    /\ phase = "drift"
    /\ center' = wrapped_center(center, drift)
    /\ UNCHANGED <<phase, analyzerVars, rendererVars, now, nextId, frame,
                   image, drift, args>>

\* get_coords(w, h): update_center(), then int(center[0] * w), int(center[1] * h)
get_coords(w, h) ==
    /\ phase = "drift"
    /\ center' = wrapped_center(center, drift)
    /\ query' = [kind |-> "coords", w |-> w, h |-> h,
                 x |-> (center'[1] * w) \div FloatOne,
                 y |-> (center'[2] * h) \div FloatOne]
    /\ UNCHANGED <<phase, sr, beat_frames, band_db, onset_env, smooth_bass, smooth_mid,
                   smooth_high, accent_track, rendererVars, now, nextId, frame,
                   image, drift, args>>

NextDrift ==
    \/ update_center
    \/ \E size \in CanvasSizes : get_coords(size[1], size[2])

SpecDrift == InitDrift /\ [][NextDrift]_vars

(* -- main.py and AudioAnalyzer.__init__: loading the audio ---------------- *)
\* args = [found, start, end, load, modules]: whether the file handed to the
\* analyzer exists, the window in seconds, and load = "pending", "ok" or
\* "error" (the constructor raised).
LoadStarts == {0, 5}
LoadEnds == {0, 3, 5, 7}

\* the duration AudioAnalyzer.__init__ passes to librosa.load (line 10):
\* (end_time - start_time) if end_time else None; None is "to the end of file"
load_duration(start_time, end_time) ==
    IF end_time # 0 THEN [none |-> FALSE, seconds |-> end_time - start_time]
    ELSE [none |-> TRUE, seconds |-> 0]

\* what AudioAnalyzer(audio_path, start_time, end_time) can do: librosa.load
\* raises for a missing file, and loads for duration None or a positive
\* duration inside the file; what it and the analysis that follows do with a
\* duration <= 0 is the library's business, so both outcomes are possible
AudioAnalyzer_init(found, start_time, end_time) ==
    LET d == load_duration(start_time, end_time)
    IN IF ~found THEN {"error"}
       ELSE IF d.none \/ d.seconds > 0 THEN {"ok"}
       ELSE {"ok", "error"}

InitLoad ==
    /\ phase = "start"
    /\ sr = 44100
    /\ beat_frames = <<>>
    /\ band_db = <<>>
    /\ onset_env = <<>>
    /\ smooth_bass = [len |-> FramesOf(sr, AudioTicks), pat |-> <<0, 700, 1500>>]
    /\ smooth_mid = [len |-> FramesOf(sr, AudioTicks), pat |-> <<500>>]
    /\ smooth_high = [len |-> FramesOf(sr, AudioTicks), pat |-> <<1200, 300>>]
    /\ accent_track = [len |-> FramesOf(sr, AudioTicks), pat |-> <<0>>]
    /\ query = [kind |-> "none"]
    /\ active_modules = InitialActive(<<"CirclePulse">>)
    /\ module_start_times = InitialStartTimes(InitialActive(<<"CirclePulse">>))
    /\ nextId = 2
    /\ fading_out_modules = <<>>
    /\ available_module_factories = <<>>
    /\ last_swap_beat = 0
    /\ bars_per_scene = DefaultBars
    /\ kaleidoscope = FALSE
    /\ glitch = TRUE
    /\ feedback = TRUE
    /\ kick_threshold = (6 * Scale) \div 10
    /\ last_glitch_beat = 0
    /\ next_glitch_wait_bars = 8
    /\ now = -1
    /\ frame = NoFrame
    /\ prev_image = NoPrevImage
    /\ image = NoImage
    /\ center = <<0, 0>>
    /\ drift = <<0, 0>>
    /\ \E found \in BOOLEAN, start \in LoadStarts, end \in LoadEnds :
          args = [found |-> found, start |-> start, end |-> end, load |-> "pending",
                  modules |-> <<"CirclePulse">>]

\* main, lines 197-208: a missing file is replaced by generated test audio,
\* then the analyzer is constructed; an exception ends main
main_load ==
    /\ phase = "start"
    /\ \E outcome \in AudioAnalyzer_init(TRUE, args.start, args.end) :
          /\ args' = [args EXCEPT !.found = TRUE, !.load = outcome]
          /\ phase' = IF outcome = "ok" THEN "setup" ELSE "aborted"
    /\ UNCHANGED <<analyzerVars, rendererVars, now, nextId, frame, image, center, drift>>

\* AudioAnalyzer(audio_path, start_time, end_time) called on its own
AudioAnalyzer_new ==
    /\ phase = "start"
    /\ \E outcome \in AudioAnalyzer_init(args.found, args.start, args.end) :
          /\ args' = [args EXCEPT !.load = outcome]
          /\ phase' = IF outcome = "ok" THEN "query" ELSE "aborted"
    /\ UNCHANGED <<analyzerVars, rendererVars, now, nextId, frame, image, center, drift>>

\* main, lines 293-301: VideoClip(make_frame, duration) written at fps; the
\* frame times are below duration = end - start
write_videofile ==
    /\ (IF now < 0 THEN 0 ELSE now + 1) < (args.end - args.start) * fps
    /\ MakeFrame(1)

NextLoad ==
    \/ main_load
    \/ AudioAnalyzer_new
    \/ write_videofile

SpecLoad == InitLoad /\ [][NextLoad]_vars

(***************************************************************************)
(* The cadence scenario: one beat per second, bars_per_scene = 1, the pool *)
(* of main, frames at the fixed rate fps.                                  *)
(***************************************************************************)
CadenceRates == {22050, 44100}

InitCadence ==
    /\ phase = "setup"
    /\ sr \in CadenceRates
    /\ beat_frames = BeatEvery(sr, fps)
    /\ band_db = <<>>
    /\ onset_env = <<>>
    /\ smooth_bass = [len |-> FramesOf(sr, MaxTick), pat |-> <<0, 700, 1500>>]
    /\ smooth_mid = [len |-> FramesOf(sr, MaxTick), pat |-> <<500>>]
    /\ smooth_high = [len |-> FramesOf(sr, MaxTick), pat |-> <<1200, 300>>]
    /\ accent_track = [len |-> FramesOf(sr, MaxTick), pat |-> <<0, 850, 1200, 750>>]
    /\ query = [kind |-> "none"]
    /\ \E kinds \in SeedKindLists :
          /\ active_modules = InitialActive(kinds)
          /\ module_start_times = InitialStartTimes(InitialActive(kinds))
          /\ nextId = Len(InitialActive(kinds)) + 1
          /\ args = [DefaultArgs EXCEPT !.modules = kinds]
    /\ fading_out_modules = <<>>
    /\ available_module_factories = full_pool
    /\ last_swap_beat = 0
    /\ bars_per_scene = 1
    /\ kaleidoscope = FALSE
    /\ glitch = TRUE
    /\ feedback \in BOOLEAN
    /\ kick_threshold = (6 * Scale) \div 10
    /\ last_glitch_beat = 0
    /\ next_glitch_wait_bars \in {8, 16}
    /\ now = -1
    /\ frame = NoFrame
    /\ prev_image = NoPrevImage
    /\ image = NoImage
    /\ center = <<0, 0>>
    /\ drift = <<0, 0>>

NextCadence == MakeFrame(1)

SpecCadence == InitCadence /\ [][NextCadence]_vars

(***************************************************************************)
(* The post-processing chain on its own: a render session on a fast track  *)
(* (a beat every PostBeatTicks ticks) with no module pool, so that the     *)
(* glitch cooldown elapses several times within MaxTick.                   *)
(***************************************************************************)
PostBeatTicks == 2
PostSeeds == {<<"CirclePulse">>, <<"CirclePulse", "Lissajous">>, <<"TunnelEffect">>}

InitPost ==
    /\ phase = "setup"
    /\ sr \in SampleRates
    /\ beat_frames = BeatEvery(sr, PostBeatTicks)
    /\ band_db = <<>>
    /\ onset_env = <<>>
    /\ smooth_bass = [len |-> FramesOf(sr, MaxTick), pat |-> <<0, 700, 1500>>]
    /\ smooth_mid = [len |-> FramesOf(sr, MaxTick), pat |-> <<500>>]
    /\ smooth_high = [len |-> FramesOf(sr, MaxTick), pat |-> <<1200, 300>>]
    /\ accent_track = [len |-> FramesOf(sr, MaxTick), pat |-> <<0, 850, 1200, 750>>]
    /\ query = [kind |-> "none"]
    /\ \E kinds \in PostSeeds :
          /\ active_modules = InitialActive(kinds)
          /\ module_start_times = InitialStartTimes(InitialActive(kinds))
          /\ nextId = Len(InitialActive(kinds)) + 1
          /\ args = [DefaultArgs EXCEPT !.modules = kinds]
    /\ fading_out_modules = <<>>
    /\ available_module_factories = <<>>
    /\ last_swap_beat = 0
    /\ bars_per_scene = DefaultBars
    /\ kaleidoscope \in BOOLEAN
    /\ glitch \in BOOLEAN
    /\ feedback \in BOOLEAN
    /\ kick_threshold = (6 * Scale) \div 10
    /\ last_glitch_beat = 0
    /\ next_glitch_wait_bars \in {8, 16}
    /\ now = -1
    /\ frame = NoFrame
    /\ prev_image = NoPrevImage
    /\ image = NoImage
    /\ center = <<0, 0>>
    /\ drift = <<0, 0>>

NextPost == \E dt \in FrameSteps : MakeFrame(dt)

SpecPost == InitPost /\ [][NextPost]_vars

(***************************************************************************)
(* Frames requested far apart: a render session on the fast track with a   *)
(* scene interval of one bar, in which make_frame is called for times one  *)
(* beat or CatchUpGap ticks after the last call, so that more than two     *)
(* scene intervals can pass between two calls.                             *)
(***************************************************************************)
CatchUpGap == 50
CatchUpSeeds == {<<"CirclePulse">>, <<"CirclePulse", "Lissajous">>}
CatchUpPool == <<"CirclePulse", "TunnelEffect">>

InitCatchUp ==
    /\ phase = "setup"
    /\ sr \in SampleRates
    /\ beat_frames = BeatEvery(sr, FastBeatTicks)
    /\ band_db = <<>>
    /\ onset_env = <<>>
    /\ smooth_bass = [len |-> FramesOf(sr, MaxTick), pat |-> <<0, 700, 1500>>]
    /\ smooth_mid = [len |-> FramesOf(sr, MaxTick), pat |-> <<500>>]
    /\ smooth_high = [len |-> FramesOf(sr, MaxTick), pat |-> <<1200, 300>>]
    /\ accent_track = [len |-> FramesOf(sr, MaxTick), pat |-> <<0, 850, 1200, 750>>]
    /\ query = [kind |-> "none"]
    /\ \E kinds \in CatchUpSeeds :
          /\ active_modules = InitialActive(kinds)
          /\ module_start_times = InitialStartTimes(InitialActive(kinds))
          /\ nextId = Len(InitialActive(kinds)) + 1
          /\ args = [DefaultArgs EXCEPT !.modules = kinds]
    /\ fading_out_modules = <<>>
    /\ available_module_factories = CatchUpPool
    /\ last_swap_beat = 0
    /\ bars_per_scene = 1
    /\ kaleidoscope = FALSE
    /\ glitch = FALSE
    /\ feedback = TRUE
    /\ kick_threshold = (6 * Scale) \div 10
    /\ last_glitch_beat = 0
    /\ next_glitch_wait_bars \in {8, 16}
    /\ now = -1
    /\ frame = NoFrame
    /\ prev_image = NoPrevImage
    /\ image = NoImage
    /\ center = <<0, 0>>
    /\ drift = <<0, 0>>

NextCatchUp == \E dt \in {FastBeatTicks, CatchUpGap} : MakeFrame(dt)

SpecCatchUp == InitCatchUp /\ [][NextCatchUp]_vars

(***************************************************************************)
(* Properties                                                              *)
(***************************************************************************)
Last(s) == s[Len(s)]
ModsOf(fading) == {fading[i].mod : i \in 1..Len(fading)}
DrawnIn(f, mod, layer) == {f.draws[i].opacity : i \in {j \in 1..Len(f.draws) :
                              f.draws[j].mod = mod /\ f.draws[j].layer = layer}}
\* an evolution event fired in the frame at this tick
EvolvedAt(tick) == \E id \in DOMAIN module_start_times : module_start_times[id] = tick

\* C1 (as claimed): no draw call of a frame rejects the opacity argument, so no
\* make_frame call aborts on it.
C1_DrawToleratesOpacity ==
    /\ \A i \in 1..Len(frame.draws) : frame.draws[i].ok
    /\ phase # "crashed"

\* C2: an evolution event with 2 or more active modules puts the fresh module at
\* the index the retired module had, keeps the length of active_modules and
\* leaves every other active module at its index.
C2_LayerOrderPreserved ==
    [][(now' # now /\ frame'.evolved /\ Len(active_modules) >= 2) =>
         /\ Len(active_modules') = Len(active_modules)
         /\ fading_out_modules' # <<>>
         /\ \E i \in 1..Len(active_modules) :
               /\ active_modules'[i].id = nextId
               /\ active_modules'[i] \notin Range(active_modules)
               /\ Last(fading_out_modules') = [mod |-> active_modules[i], start_t |-> now']
               /\ \A j \in (1..Len(active_modules)) \ {i} :
                     active_modules'[j] = active_modules[j]]_vars

\* C2 witness: a swap has just replaced the module at index 1 of two
C2_Witness ==
    /\ frame.evolved
    /\ Len(active_modules) = 2
    /\ active_modules[1].id = nextId - 1
    /\ active_modules[2].id < active_modules[1].id
    /\ fading_out_modules # <<>>
    /\ Last(fading_out_modules).start_t = frame.tick

\* C3: a module inserted by an evolution event at time s is drawn with opacity
\* min(1, (t - s) / transition_duration): 0 at t = s, (t - s)/transition_duration
\* (so strictly increasing in t) below the duration, exactly 1 from then on.
\* Opacities are in units of 1/TransitionTicks.
C3_FadeIn ==
    \A i \in 1..Len(frame.draws) :
        LET d == frame.draws[i]
            s == module_start_times[d.mod.id]
        IN (d.layer = "active" /\ s >= 0) =>
              /\ frame.tick >= s
              /\ frame.tick = s => d.opacity = 0
              /\ frame.tick - s < TransitionTicks => d.opacity = frame.tick - s
              /\ frame.tick - s >= TransitionTicks => d.opacity = TransitionTicks

\* C3 witness: two evolved modules are drawn, one with its fade-in complete and
\* one part of the way
C3_Witness ==
    \E i, j \in 1..Len(frame.draws) :
        LET d == frame.draws[i]
            s == module_start_times[d.mod.id]
            d2 == frame.draws[j]
            s2 == module_start_times[d2.mod.id]
        IN /\ d.layer = "active" /\ s >= 0
           /\ frame.tick - s >= TransitionTicks /\ d.opacity = TransitionTicks
           /\ d2.layer = "active" /\ s2 >= 0
           /\ frame.tick - s2 > 0 /\ frame.tick - s2 < TransitionTicks

\* C4: in every frame at time t a module retired at r is drawn with opacity
\* 1 - (t - r)/transition_duration while (t - r)/transition_duration < 1; in the
\* first frame with progress >= 1 it is not drawn and leaves fading_out_modules;
\* a module that left never comes back to either list.
C4_FadeOut ==
    [][now' # now =>
         /\ \A e \in Range(fading_out_modules) :
               IF now' - e.start_t < TransitionTicks
               THEN /\ e \in Range(fading_out_modules')
                    /\ DrawnIn(frame', e.mod, "fading") =
                          {TransitionTicks - (now' - e.start_t)}
                    /\ \A o \in DrawnIn(frame, e.mod, "fading") :
                          TransitionTicks - (now' - e.start_t) < o
               ELSE /\ e \notin Range(fading_out_modules')
                    /\ \A i \in 1..Len(frame'.draws) : frame'.draws[i].mod # e.mod
         /\ \A e \in Range(fading_out_modules') :
               /\ DrawnIn(frame', e.mod, "fading") = {TransitionTicks - (now' - e.start_t)}
               /\ TransitionTicks - (now' - e.start_t) > 0
               /\ e \in Range(fading_out_modules) \/ e.mod \in Range(active_modules)
         /\ \A e \in Range(fading_out_modules) : e.mod \notin Range(active_modules')
         /\ \A m \in Range(active_modules') \ Range(active_modules) : m.id >= nextId
         /\ \A m \in Range(active_modules) \cup ModsOf(fading_out_modules) : m.id < nextId
      ]_vars

\* C4 witness: a module that was retired has finished its fade-out and is gone
\* from both lists, in a frame that rendered
C4_Witness ==
    /\ phase = "render"
    /\ \E id \in DOMAIN module_start_times :
          /\ \A m \in Range(active_modules) \cup ModsOf(fading_out_modules) : m.id # id
          /\ module_start_times[id] >= 0

\* C5 (as claimed): with one beat per second, bars_per_scene = 1 and frames at
\* the fixed rate, an evolution event fires within one frame interval of every
\* 4k-second mark (at tick 4k*fps or the next), and at no other frame.  The start
\* times kept in module_start_times are the times of the evolution events.
C5_EvolutionCadence ==
    /\ \A id \in DOMAIN module_start_times :
          module_start_times[id] >= 0 =>
             /\ module_start_times[id] >= 4 * fps
             /\ module_start_times[id] % (4 * fps) \in {0, 1}
    /\ \A k \in 1..(MaxTick \div (4 * fps)) :
          (now >= 4 * fps * k + 1 /\ phase = "render") =>
             EvolvedAt(4 * fps * k) \/ EvolvedAt(4 * fps * k + 1)

\* C6 (as claimed): without beats the beat index is 0, no evolution event fires,
\* the scene state keeps its initial values and no frame raises.
C6_NoBeatsDegraded ==
    beat_frames = <<>> =>
        /\ now >= 0 => get_beat_index(now) = 0
        /\ ~frame.evolved
        /\ \A i \in 1..Len(active_modules) : active_modules[i].id = i
        /\ nextId = Len(active_modules) + 1
        /\ fading_out_modules = <<>>
        /\ last_swap_beat = 0
        /\ kaleidoscope = FALSE
        /\ ~frame.raised

\* C7: the beat index does not decrease from one frame time to a later one, and
\* last_swap_beat and last_glitch_beat never decrease.
C7_BeatIndexMonotone ==
    [][/\ (now >= 0 /\ now' >= now) => get_beat_index(now') >= get_beat_index(now)
       /\ last_swap_beat' >= last_swap_beat
       /\ last_glitch_beat' >= last_glitch_beat]_vars

\* C7 witness: both beat marks have advanced
C7_Witness ==
    /\ last_swap_beat > 0
    /\ last_glitch_beat > 0
    /\ get_beat_index(now) > 0

\* C8 (as claimed): the beat index is the number of beat frames less than or
\* equal to the frame index of the queried time.
C8_CountsBeatsUpToFrame ==
    query.kind = "beat" =>
        query.beat = Cardinality({i \in 1..Len(beat_frames) :
                                     beat_frames[i] <= query.frame_idx})

\* C9 (as claimed): every energy query returns bass, mid and high in [0, 1] and
\* accent in [0, 1.2].
C9_EnergyBounds ==
    (query.kind = "energy" /\ ~query.energy.raised) =>
        /\ query.energy.bass \in 0..Scale
        /\ query.energy.mid \in 0..Scale
        /\ query.energy.high \in 0..Scale
        /\ query.energy.accent \in 0..((12 * Scale) \div 10)

\* C10: the gated bass is 0 below the threshold and (raw - threshold) /
\* (1 - threshold) from the threshold on; 0.6 at threshold 0.6 gives 0, 0.8 at
\* threshold 0.6 gives 1/2, 1.0 at threshold 0 gives 1; mid, high and accent are
\* passed through.
C10_Gate ==
    query.kind = "gated" =>
        LET raw == query.energy.bass
            thr == kick_threshold
            g   == query.levels.bass
        IN /\ g.den > 0
           /\ raw < thr => g.num = 0
           /\ raw >= thr => g.num * (Scale - thr) = (raw - thr) * g.den
           /\ (raw = Tenths(6) /\ thr = Tenths(6)) => g.num = 0
           /\ (raw = Tenths(8) /\ thr = Tenths(6)) => 2 * g.num = g.den
           /\ (raw = Scale /\ thr = 0) => g.num = g.den
           /\ query.levels.mid = query.energy.mid
           /\ query.levels.high = query.energy.high
           /\ query.levels.accent = query.energy.accent

\* C10 witness: raw bass 0.8 gated at threshold 0.6
C10_Witness ==
    /\ query.kind = "gated"
    /\ query.energy.bass = Tenths(8)
    /\ kick_threshold = Tenths(6)
    /\ 2 * query.levels.bass.num = query.levels.bass.den
    /\ query.levels.bass.num > 0

\* C11 (as claimed): the gated bass handed to the draw calls lies in [0, 1] for
\* every bass value the analyzer returns.
C11_GatedBassRange ==
    query.kind = "gated" =>
        /\ query.levels.bass.den > 0
        /\ 0 <= query.levels.bass.num
        /\ query.levels.bass.num <= query.levels.bass.den

\* C12 (as claimed): a query whose frame index is at or past the end of the
\* tracks does not raise, returns all four components bass, mid, high and
\* accent as 0, and its beat index is the total number of beats.
C12_OutOfRangeZero ==
    (query.kind = "energy" /\ query.frame_idx >= smooth_bass.len) =>
        /\ ~query.energy.raised
        /\ query.energy.bass = 0
        /\ query.energy.mid = 0
        /\ query.energy.high = 0
        /\ query.energy.hasAccent
        /\ query.energy.accent = 0
        /\ query.beat = Len(beat_frames)

\* C13: for even w and h the folded image has pixel(x, y) = pixel(w-1-x, y) =
\* pixel(x, h-1-y) = pixel(w-1-x, h-1-y) for all x < w/2 and y < h/2, and its
\* top-left quadrant is the top-left quadrant of the input image.
C13_KaleidoscopeSymmetry ==
    (phase = "fold" /\ kaleidoscope /\ image.folds >= 1
        /\ image.w % 2 = 0 /\ image.h % 2 = 0) =>
        \A x \in 0..((image.w \div 2) - 1), y \in 0..((image.h \div 2) - 1) :
            LET pixel(xx, yy) == image.px[yy + 1][xx + 1]
            IN /\ pixel(x, y) = pixel(image.w - 1 - x, y)
               /\ pixel(x, y) = pixel(x, image.h - 1 - y)
               /\ pixel(x, y) = pixel(image.w - 1 - x, image.h - 1 - y)
               /\ pixel(x, y) = image.input[y + 1][x + 1]

\* C13 witness: a 4 x 2 image that was not symmetric has been folded once
C13_Witness ==
    /\ phase = "fold" /\ kaleidoscope /\ image.folds = 1
    /\ image.w = 4 /\ image.h = 2
    /\ image.input = <<(<<0, 1, 0, 0>>), (<<1, 1, 0, 1>>)>>
    /\ image.px = <<(<<0, 1, 1, 0>>), (<<0, 1, 1, 0>>)>>

\* C14 (as claimed): after any number of update_center / get_coords calls both
\* components of the center lie in [0, 1), whatever the drift.
C14_ToroidalWrap ==
    phase = "drift" =>
        \A i \in 1..2 : 0 <= center[i] /\ center[i] < FloatOne

\* C15: the Renderer starts with the first min(2, n) modules of the seed list in
\* their order, and in every frame a seed module that is still active is drawn
\* with opacity exactly 1 (TransitionTicks units).
C15_SeedsOpaque ==
    LET seeds == Min(Len(args.modules), 2)
    IN /\ phase = "setup" =>
             active_modules = [i \in 1..seeds |-> Module(i, args.modules[i])]
       /\ \A i \in 1..Len(frame.draws) :
             (frame.draws[i].layer = "active" /\ frame.draws[i].mod.id <= seeds) =>
                 frame.draws[i].opacity = TransitionTicks
       /\ (phase = "render" /\ ~frame.raised) =>
             \A m \in Range(active_modules) :
                 m.id <= seeds => DrawnIn(frame, m, "active") = {TransitionTicks}

\* C15 witness: a seed list of 3 was cut to 2, and both seeds are drawn at full
\* opacity in a frame after the first
C15_Witness ==
    /\ phase = "render" /\ frame.tick >= 1 /\ ~frame.raised
    /\ Len(args.modules) = 3
    /\ active_modules = <<Module(1, args.modules[1]), Module(2, args.modules[2])>>
    /\ DrawnIn(frame, active_modules[1], "active") = {TransitionTicks}
    /\ DrawnIn(frame, active_modules[2], "active") = {TransitionTicks}

\* C16 (as claimed): constructing the analyzer for an empty window (end <=
\* start) or for a missing file ends in an error, and no frame is rendered
\* after it.
C16_FatalErrorsAbort ==
    (args.load # "pending" /\ (args.end <= args.start \/ ~args.found)) =>
        /\ args.load = "error"
        /\ phase = "aborted"
        /\ now < 0

\* C17: a frame fires an evolution event if and only if beat index -
\* last_swap_beat >= bars_per_scene * 4 and the pool is not empty; the event
\* sets last_swap_beat to the beat index, so two events are at least
\* bars_per_scene * 4 beats apart; no other frame changes last_swap_beat; and
\* bars_per_scene is at least 1 after set_bars.
C17_EvolutionGuard ==
    [][/\ now' # now =>
            /\ frame'.evolved <=>
                  (/\ get_beat_index(now') - last_swap_beat >= bars_per_scene * 4
                   /\ available_module_factories # <<>>)
            /\ frame'.evolved =>
                  /\ last_swap_beat' = get_beat_index(now')
                  /\ last_swap_beat' - last_swap_beat >= bars_per_scene * 4
            /\ ~frame'.evolved => last_swap_beat' = last_swap_beat
       /\ bars_per_scene' >= 1]_vars

\* C17 witness: set_bars(0) left bars_per_scene at 1 and the second evolution
\* event has just fired
C17_Witness ==
    /\ bars_per_scene = 1
    /\ frame.evolved
    /\ last_swap_beat >= 8
    /\ nextId >= Min(Len(args.modules), 2) + 3

\* C18 (as claimed): a module is moved to fading-out only after its fade-in is
\* complete: every retired module was retired at least transition_duration
\* after its start time.
C18_RetiredFromSteady ==
    \A e \in Range(fading_out_modules) :
        e.start_t - module_start_times[e.mod.id] >= TransitionTicks

\* C19: active_modules never holds more than 2 modules and its length never
\* decreases.
C19_ActiveCap ==
    /\ Len(active_modules) <= 2
    /\ [][/\ Len(active_modules') <= 2
          /\ Len(active_modules') >= Len(active_modules)]_vars

\* C19 witness: a single seed was joined by a second module, nothing retired
C19_Witness ==
    /\ Len(args.modules) = 1
    /\ Len(active_modules) = 2
    /\ frame.evolved
    /\ fading_out_modules = <<>>

\* C20: an evolution event with fewer than 2 active modules appends one new
\* module with start time t and changes neither fading_out_modules nor the
\* modules already active; with 2 or more it moves exactly one active module
\* to fading_out_modules tagged with t and creates exactly one new module
\* with start time t.
C20_FillVersusReplace ==
    [][(now' # now /\ frame'.evolved) =>
         LET fresh == Range(active_modules') \ Range(active_modules)
             gone  == Range(active_modules) \ Range(active_modules')
         IN /\ Cardinality(fresh) = 1
            /\ \A m \in fresh : /\ m.id = nextId
                                /\ m.kind \in Range(available_module_factories)
                                /\ module_start_times'[m.id] = now'
            /\ nextId' = nextId + 1
            /\ \A id \in DOMAIN module_start_times :
                  module_start_times'[id] = module_start_times[id]
            /\ IF Len(active_modules) < 2
               THEN /\ gone = {}
                    /\ SubSeq(active_modules', 1, Len(active_modules)) = active_modules
                    /\ Len(active_modules') = Len(active_modules) + 1
                    /\ fading_out_modules' = fading_out_modules
               ELSE /\ Cardinality(gone) = 1
                    /\ fading_out_modules' # <<>>
                    /\ Last(fading_out_modules').start_t = now'
                    /\ gone = {Last(fading_out_modules').mod}
                    /\ ModsOf(fading_out_modules') \ ModsOf(fading_out_modules) = gone
                    /\ \A k \in 1..(Len(fading_out_modules') - 1) :
                          fading_out_modules'[k] \in Range(fading_out_modules)]_vars

\* C20 witness: a single seed, one fill, and a replacement that has just
\* retired a module
C20_Witness ==
    /\ Len(args.modules) = 1
    /\ nextId = 4
    /\ frame.evolved
    /\ fading_out_modules # <<>>
    /\ Last(fading_out_modules).start_t = frame.tick

\* C21 (as claimed): get_energy_at_time(t) inside the analysed window returns
\* the values stored at frame index floor(t * sr / hop_length); that index is
\* never negative, so a query near t = 0 does not wrap to the end of the tracks.
C21_FrameIndex ==
    LET idx == (query.tick * sr) \div (fps * hop_length)
    IN (query.kind = "energy" /\ idx < smooth_bass.len) =>
          /\ query.frame_idx = idx
          /\ query.frame_idx >= 0
          /\ ~query.energy.raised
          /\ query.energy.bass = TrackAt(smooth_bass, idx)
          /\ query.energy.mid = TrackAt(smooth_mid, idx)
          /\ query.energy.high = TrackAt(smooth_high, idx)

\* C22: the channel split fires only in a frame whose accent is above 0.7 and
\* whose beat index is at least next_glitch_wait_bars * 4 past last_glitch_beat;
\* a firing sets last_glitch_beat to the frame's beat index and draws
\* next_glitch_wait_bars from {2, 4, 8}, so a firing is at least 8 beats after
\* the one before it; the white flash is applied only in a frame where the
\* channel split fires and the accent is above 0.95.
C22_GlitchCooldown ==
    [][now' # now =>
         LET beat == get_beat_index(now')
             accent == frame'.levels.accent
         IN /\ frame'.glitched =>
                 /\ 10 * accent > 7 * Scale
                 /\ beat - last_glitch_beat >= next_glitch_wait_bars * 4
                 /\ last_glitch_beat' = beat
                 /\ next_glitch_wait_bars' \in {2, 4, 8}
                 /\ last_glitch_beat > 0 => beat - last_glitch_beat >= 8
            /\ frame'.flashed => frame'.glitched /\ 100 * accent > 95 * Scale
            /\ StagePos(frame'.stages, "split") > 0 <=> frame'.glitched
            /\ StagePos(frame'.stages, "flash") > 0 <=> frame'.flashed]_vars

\* a second firing, with the white flash, after an earlier firing
C22_Witness ==
    /\ frame.glitched
    /\ frame.flashed
    /\ last_glitch_beat = get_beat_index(frame.tick)
    /\ last_glitch_beat >= 32 + 8

\* C23: with glitch enabled, every frame that make_frame returns is shaken
\* exactly when its accent is above 0.8, whether or not the glitch cooldown has
\* elapsed, and a frame in which the channel split does not fire leaves
\* last_glitch_beat and next_glitch_wait_bars as they were; with glitch
\* disabled no frame is shaken or channel-split.
C23_ShakeIndependent ==
    [][(now' # now /\ ~frame'.raised) =>
         LET accent == frame'.levels.accent
             shake  == StagePos(frame'.stages, "shake") > 0
             split  == StagePos(frame'.stages, "split") > 0
         IN /\ glitch => (shake <=> 10 * accent > 8 * Scale)
            /\ frame'.shaken <=> shake
            /\ ~split => /\ last_glitch_beat' = last_glitch_beat
                         /\ next_glitch_wait_bars' = next_glitch_wait_bars
            /\ ~glitch => ~shake /\ ~split
            /\ glitch' = glitch]_vars

\* a frame after the first firing that is shaken while the cooldown has not
\* elapsed: no channel split, the cooldown state is the one the firing left
C23_Witness ==
    /\ glitch
    /\ frame.shaken
    /\ ~frame.glitched
    /\ last_glitch_beat >= 32
    /\ get_beat_index(frame.tick) - last_glitch_beat < next_glitch_wait_bars * 4

\* C29: next_glitch_wait_bars is 8 or 16 until the first channel split and one
\* of 2, 4, 8 after any channel split, so it is always one of 2, 4, 8, 16; with
\* last_glitch_beat starting at 0, no channel split fires in a frame whose beat
\* index is below 32.
C29_GlitchWaitRange ==
    /\ next_glitch_wait_bars \in {2, 4, 8, 16}
    /\ last_glitch_beat = 0 => next_glitch_wait_bars \in {8, 16}
    /\ last_glitch_beat # 0 => next_glitch_wait_bars \in {2, 4, 8}
    /\ frame.glitched => get_beat_index(frame.tick) >= 32
    /\ last_glitch_beat # 0 => last_glitch_beat >= 32

\* the first channel split fired at beat index 32 exactly and drew a wait of 2
C29_Witness ==
    /\ frame.glitched
    /\ last_glitch_beat = 32
    /\ get_beat_index(frame.tick) = 32
    /\ next_glitch_wait_bars = 2

C25_DrawOrder ==
    [][(now' # now /\ ~frame'.raised) =>
         LET draws == frame'.draws
             nf == Len(fading_out_modules')
             na == Len(active_modules')
             fresh == {m \in Range(active_modules') : m \notin Range(active_modules)}
             gone == {m \in Range(active_modules) : m \notin Range(active_modules')}
         IN /\ Len(draws) = nf + na
            /\ \A i \in 1..nf : /\ draws[i].layer = "fading"
                                /\ draws[i].mod = fading_out_modules'[i].mod
            /\ \A i \in 1..na : /\ draws[nf + i].layer = "active"
                                /\ draws[nf + i].mod = active_modules'[i]
            /\ frame'.evolved =>
                 /\ Cardinality(fresh) = 1
                 /\ \A m \in fresh : DrawnIn(frame', m, "active") = {0}
                 /\ \A m \in gone : /\ m \in ModsOf(fading_out_modules')
                                    /\ DrawnIn(frame', m, "fading") # {}
                                    /\ DrawnIn(frame', m, "active") = {}]_vars

\* an evolution frame that replaced a module while another one was still
\* fading: two fading draws, then the active draws with the fresh module
C25_Witness ==
    /\ frame.evolved
    /\ ~frame.raised
    /\ Len(fading_out_modules) >= 2
    /\ Len(active_modules) >= 2
    /\ Last(fading_out_modules).start_t = frame.tick
    /\ \E i \in 1..Len(frame.draws) :
          frame.draws[i].layer = "active" /\ frame.draws[i].opacity = 0

\* C26: a frame whose evolution guard is false (fewer than bars_per_scene * 4
\* beats since last_swap_beat, or an empty pool) leaves active_modules,
\* module_start_times, last_swap_beat and the kaleidoscope flag as they were
\* and adds nothing to fading_out_modules; the kaleidoscope flag changes only
\* in an evolution frame; glitch and feedback never change.
C26_NonEvolutionFrame ==
    [][/\ (/\ now' # now
           /\ ~(/\ get_beat_index(now') - last_swap_beat >= bars_per_scene * 4
                /\ available_module_factories # <<>>)) =>
              /\ ~frame'.evolved
              /\ active_modules' = active_modules
              /\ module_start_times' = module_start_times
              /\ last_swap_beat' = last_swap_beat
              /\ kaleidoscope' = kaleidoscope
              /\ \A i \in 1..Len(fading_out_modules') :
                    \E j \in 1..Len(fading_out_modules) :
                       fading_out_modules'[i] = fading_out_modules[j]
              /\ Len(fading_out_modules') <= Len(fading_out_modules)
       /\ kaleidoscope' # kaleidoscope => now' # now /\ frame'.evolved
       /\ glitch' = glitch
       /\ feedback' = feedback]_vars

\* a frame without an evolution event, after an event that switched the
\* kaleidoscope on and while the module that event retired is still fading
C26_Witness ==
    /\ frame.tick >= 0
    /\ ~frame.evolved
    /\ ~frame.raised
    /\ kaleidoscope
    /\ fading_out_modules # <<>>
    /\ available_module_factories # <<>>

\* C28: no module instance is in both active_modules and fading_out_modules,
\* none occurs twice in either list, every active module has an entry in
\* module_start_times, and no module's draw is called more than once in a
\* frame.
C28_DisjointOwnership ==
    /\ Range(active_modules) \cap ModsOf(fading_out_modules) = {}
    /\ \A i, j \in 1..Len(active_modules) :
          active_modules[i] = active_modules[j] => i = j
    /\ \A i, j \in 1..Len(fading_out_modules) :
          fading_out_modules[i].mod = fading_out_modules[j].mod => i = j
    /\ \A i \in 1..Len(active_modules) : active_modules[i].id \in DOMAIN module_start_times
    /\ \A i, j \in 1..Len(frame.draws) :
          frame.draws[i].mod = frame.draws[j].mod => i = j

\* two active modules and two fading ones, all four drawn in the frame
C28_Witness ==
    /\ Len(active_modules) = 2
    /\ Len(fading_out_modules) = 2
    /\ Len(frame.draws) = 4
    /\ Cardinality(Range(active_modules) \cup ModsOf(fading_out_modules)) = 4

\* C27: a make_frame call creates at most one module; a call whose beat index
\* is two or more scene intervals (2 * bars_per_scene * 4 beats) past
\* last_swap_beat adds or replaces exactly one module and sets last_swap_beat
\* to the call's beat index, not to last_swap_beat plus one interval; an
\* evolution event happens only in a call whose beat index is at least
\* bars_per_scene * 4 past the last_swap_beat the event before it left.
C27_NoCatchUp ==
    [][now' # now =>
         LET beat == get_beat_index(now')
             fresh == {m \in Range(active_modules') : m \notin Range(active_modules)}
             gone == {m \in Range(active_modules) : m \notin Range(active_modules')}
         IN /\ nextId' <= nextId + 1
            /\ Cardinality(fresh) <= 1
            /\ Cardinality(gone) <= 1
            /\ frame'.evolved => /\ beat - last_swap_beat >= bars_per_scene * 4
                                 /\ last_swap_beat' = beat
            /\ (/\ beat - last_swap_beat >= 2 * bars_per_scene * 4
                /\ available_module_factories # <<>>) =>
                  /\ frame'.evolved
                  /\ Cardinality(fresh) = 1
                  /\ nextId' = nextId + 1
                  /\ Len(active_modules') =
                        IF Len(active_modules) < 2 THEN Len(active_modules) + 1
                        ELSE Len(active_modules)
                  /\ Cardinality(gone) = IF Len(active_modules) < 2 THEN 0 ELSE 1
                  /\ last_swap_beat' = beat
                  /\ last_swap_beat' >= last_swap_beat + 2 * bars_per_scene * 4]_vars

\* the second evolution event of a session, in a call more than two scene
\* intervals after the first: one module replaced, last_swap_beat at the
\* call's beat index
C27_Witness ==
    /\ frame.evolved
    /\ nextId = Len(args.modules) + 3
    /\ last_swap_beat = get_beat_index(frame.tick)
    /\ \E id \in DOMAIN module_start_times :
          /\ module_start_times[id] >= 0
          /\ module_start_times[id] < frame.tick
          /\ get_beat_index(frame.tick) - get_beat_index(module_start_times[id])
                >= 2 * bars_per_scene * 4

\* C30: folding an image of even width and height that has already been folded
\* changes no pixel: fold(fold(img)) = fold(img).
C30_FoldIdempotent ==
    [][(/\ phase = "fold" /\ kaleidoscope
        /\ image.w % 2 = 0 /\ image.h % 2 = 0
        /\ image.folds >= 1
        /\ image'.folds = image.folds + 1) =>
          /\ image'.px = image.px
          /\ image'.px = kaleidoscope_fold([w |-> image.w, h |-> image.h,
                                            px |-> image.input]).px]_vars

\* a 4 x 2 image that was not symmetric has been folded twice
C30_Witness ==
    /\ phase = "fold" /\ kaleidoscope /\ image.folds = 2
    /\ image.w = 4 /\ image.h = 2
    /\ image.input = <<(<<0, 1, 0, 0>>), (<<1, 1, 0, 1>>)>>
    /\ image.px = <<(<<0, 1, 1, 0>>), (<<0, 1, 1, 0>>)>>

=============================================================================
